---- MODULE Spec2Model ----
(***************************************************************************)
(* Model of datautils.structures.mp: a Lord (the Supervisor) that spawns a *)
(* Serf (the Worker) in a child process and talks to it over a duplex     *)
(* multiprocessing.Pipe.  The Lord is translated from lord.py.  serf.py   *)
(* is not part of the sources at hand; the Serf's receive loop and        *)
(* parse_message are modelled from the specification's Worker runtime.    *)
(*                                                                         *)
(* Values.  A cached state is an integer: None, the terminal sentinel      *)
(* 'exit', the Serf's first report, or a running total 0..MaxTotal.        *)
(* A message is the triple <<attr, args, kwargs>>: attr a string, args a   *)
(* sequence of integers, kwargs a set of <<keyword, integer>> pairs.       *)
(***************************************************************************)
EXTENDS Integers, Sequences, FiniteSets, TLC

VARIABLES
    _state,     \* Lord._state: the cached state
    process,    \* Lord.process: None or the pid of the spawned child
    _cbindex,   \* Lord._cbindex: the next callback id
    callbacks,  \* Lord.callbacks: dict, key -> (dict cbid -> func)
    pipe,       \* Lord.pipe: NoPipe while the attribute is unset, else the channel id
    toSerf,     \* messages written on Lord.pipe, not yet received by the Serf
    toLord,     \* messages written by the Serf, not yet received by the Lord
    lordPc,     \* where the Lord's single thread is: idle, or inside a wait loop
    serf,       \* the child process: pid, position, running total, its pipe end;
                \* whether it has reported a state, was started with wait=True,
                \* has sent an error signal, has reported the empty value
    spawned,    \* number of child processes created so far
    ret,        \* outcome of the Lord call in progress / last completed
    issued,     \* <<cbid, attr, func>> of every attach call that returned, in call order
    detached    \* cbids for which a detatch call returned without raising

vars == <<_state, process, _cbindex, callbacks, pipe, toSerf, toLord,
          lordPc, serf, spawned, ret, issued, detached>>

---------------------------------------------------------------------------
(* Bounds of the model. *)
MaxCb == 2
MaxStarts == 2
MaxTotal == 3
MaxBy == 2
MaxQueue == 2

(* Python's None, as the value of Lord._state and Lord.process. *)
None == -1
(* Lord.__init__ never assigns self.pipe: the attribute does not exist. *)
NoPipe == 0
(* The terminal sentinel the Serf reports on 'exit' (test.py compares with 'exit'). *)
ExitState == -2
(* The Serf's first state report, sent when its construction has completed. *)
ReadyState == -3

(* Callables a caller may attach. *)
Funcs == {"f", "g"}
(* Event names a caller may subscribe to. *)
EventNames == {"tick", "update"}
(* Values of send's attr that are not instances of str. *)
NonStr == {"<42>"}

EmptyDict == <<>>
NoArgs == <<>>
NoKwargs == {}

Msg(attr, args, kwargs) == <<attr, args, kwargs>>

(* What dir(Lord()) resolves: the methods and the attributes set by __init__/start. *)
LordMethods == {"attach", "detatch", "state", "error", "send", "start", "stop", "update"}

HasPipe == pipe # NoPipe

(* multiprocessing.Process.is_alive() of Lord.process. *)
IsAlive == /\ process # None
           /\ serf.pid = process
           /\ serf.pc \in {"init", "ready", "exiting"}

(* The child's end of Lord.pipe is closed: the child that held it has exited. *)
PeerGone == HasPipe /\ ~(serf.pipe = pipe /\ serf.pc \in {"init", "ready", "exiting"})

(* Outcome of a Lord call: the method, the exception raised ("none" when it *)
(* returned, "pending" while it is inside a wait loop), the value returned *)
(* or the branch taken, the number of messages received and written, the   *)
(* callbacks invoked, and the process handle when the call began.          *)
Ret(op, exc, val, nread, wrote, invoked) ==
    [op |-> op, exc |-> exc, val |-> val, nread |-> nread, wrote |-> wrote,
     invoked |-> invoked, pre |-> process]

---------------------------------------------------------------------------
(* Lord.__init__ *)
Init ==
    /\ _state = None
    /\ process = None
    /\ _cbindex = 0
    /\ callbacks = EmptyDict
    /\ pipe = NoPipe
    /\ toSerf = <<>>
    /\ toLord = <<>>
    /\ lordPc = "idle"
    /\ serf = [pid |-> 0, pc |-> "none", total |-> 0, pipe |-> NoPipe,
               reported |-> FALSE, waited |-> FALSE, errs |-> FALSE,
               empties |-> FALSE]
    /\ spawned = 0
    /\ ret = Ret("init", "none", None, 0, 0, <<>>)
    /\ issued = <<>>
    /\ detached = {}

---------------------------------------------------------------------------
(* Callback registry: attach / detatch.                                    *)

(* Python: a dict (a callback group) never compares equal to a str. *)
DictEqStr(d, s) == FALSE
(* Python: a dict (a callback group) never compares equal to an int. *)
DictEqInt(d, i) == FALSE

(* d[k] = v on a dict d. *)
DictSet(d, k, v) == [x \in (DOMAIN d) \cup {k} |-> IF x = k THEN v ELSE d[x]]
(* del d[k] on a dict d that has the key k. *)
DictDel(d, k) == [x \in (DOMAIN d) \ {k} |-> d[x]]

(* lord.py 28-30: every entry whose value differs from attr is replaced by {}. *)
AttachReset(cbs, attr) ==
    [k \in DOMAIN cbs |-> IF ~DictEqStr(cbs[k], attr) THEN EmptyDict ELSE cbs[k]]

(* lord.py 33-35: func is stored under cbid in every entry whose value equals attr. *)
AttachStore(cbs, attr, cbid, func) ==
    [k \in DOMAIN cbs |->
        IF DictEqStr(cbs[k], attr) THEN DictSet(cbs[k], cbid, func) ELSE cbs[k]]

NextCbIndexStuck(i) == i
(* lord.py 32: self._cbindex += 1 *)
NextCbIndex(i) == i + 1

(* Lord.attach(attr, func) *)
Attach(attr, func) ==
    /\ lordPc = "idle"
    /\ _cbindex < MaxCb
    /\ callbacks' = AttachStore(AttachReset(callbacks, attr), attr, _cbindex, func)
    /\ _cbindex' = NextCbIndex(_cbindex)
    /\ ret' = Ret("attach", "none", _cbindex, 0, 0, <<>>)
    /\ issued' = Append(issued, <<_cbindex, attr, func>>)
    /\ UNCHANGED <<_state, process, pipe, toSerf, toLord, lordPc, serf, spawned, detached>>

(* lord.py 48-49: the keys whose value equals cbid. *)
DetatchMatches(cbs, cbid) == {a \in DOMAIN cbs : DictEqInt(cbs[a], cbid)}

(* The exception Lord.detatch(cbid) raises, "none" when it returns. *)
DetatchExc(cbs, cbid) ==
    IF DetatchMatches(cbs, cbid) = {} THEN "ValueError"
    ELSE LET a == CHOOSE k \in DetatchMatches(cbs, cbid) : TRUE
         IN IF cbid \in DOMAIN cbs[a] THEN "none" ELSE "KeyError"

(* The registry after Lord.detatch(cbid). *)
DetatchCallbacks(cbs, cbid) ==
    IF DetatchExc(cbs, cbid) # "none" THEN cbs
    ELSE LET a == CHOOSE k \in DetatchMatches(cbs, cbid) : TRUE
         IN [cbs EXCEPT ![a] = DictDel(cbs[a], cbid)]

(* Lord.detatch(cbid) *)
Detatch(cbid) ==
    /\ lordPc = "idle"
    /\ callbacks' = DetatchCallbacks(callbacks, cbid)
    /\ ret' = Ret("detatch", DetatchExc(callbacks, cbid), cbid, 0, 0, <<>>)
    /\ detached' = IF DetatchExc(callbacks, cbid) = "none"
                    THEN detached \cup {cbid} ELSE detached
    /\ UNCHANGED <<_state, process, _cbindex, pipe, toSerf, toLord, lordPc, serf,
                   spawned, issued>>

(* The subscriptions that are stored in the registry: <<cbid, attr, func>>. *)
Registered(cbs) ==
    UNION {{<<c, a, cbs[a][c]>> : c \in DOMAIN cbs[a]} : a \in DOMAIN cbs}

(* The subscriptions the caller holds: returned by attach, not detached since. *)
Held == {issued[i] : i \in {j \in 1..Len(issued) : issued[j][1] \notin detached}}

---------------------------------------------------------------------------
(* Lord.update and the calls it dispatches to.                             *)

(* Result of a call that touches the channel and the cached state: the     *)
(* messages left to receive, the cached state, the exception raised, the   *)
(* number of messages received and the callbacks invoked, in order; and    *)
(* call, the method of the Lord a message has invoked that acts on the     *)
(* process and on the channel ("stop", else "none").                       *)
Res(q, st, exc, nread, invoked) ==
    [q |-> q, st |-> st, exc |-> exc, nread |-> nread, invoked |-> invoked,
     call |-> "none"]

RECURSIVE SortedKeys(_)
(* The keys of a callback group in ascending cbid order (insertion order). *)
SortedKeys(S) ==
    IF S = {} THEN <<>>
    ELSE LET m == CHOOSE x \in S : \A y \in S : x <= y
         IN <<m>> \o SortedKeys(S \ {m})

(* lord.py 104-108: the callbacks of attr's group, each called with args, kwargs. *)
Invoke(cbs, attr, args, kwargs) ==
    IF attr \in DOMAIN cbs
    THEN [i \in 1..Len(SortedKeys(DOMAIN cbs[attr])) |->
             <<cbs[attr][SortedKeys(DOMAIN cbs[attr])[i]], args, kwargs>>]
    ELSE <<>>

(* serf.parse_message(lord, msg): the message's attr, args and kwargs. *)
parse_message(msg) == [attr |-> msg[1], args |-> msg[2], kwargs |-> msg[3]]

errorSwallowed(r) == r
(* Lord.error: raises serf.SerfError from the message's args and kwargs. *)
error(r) == [r EXCEPT !.exc = "SerfError"]

RECURSIVE update(_, _, _, _)
RECURSIVE state(_, _, _, _, _, _)

stateClears(new_state, upd, q, st, cbs, eof) ==
    IF new_state = None /\ upd THEN update(q, st, cbs, eof)
    ELSE Res(q, new_state, "none", 0, <<>>)
stateOnce(new_state, upd, q, st, cbs, eof) ==
    IF new_state = None
    THEN IF upd THEN update(q, st, cbs, eof) ELSE Res(q, st, "none", 0, <<>>)
    ELSE Res(q, IF st = None THEN new_state ELSE st, "none", 0, <<>>)
(* Lord.state(new_state, update): the getter runs one update() first when  *)
(* update is set; the setter replaces the cached state.                    *)
state(new_state, upd, q, st, cbs, eof) ==
    IF new_state = None
    THEN IF upd THEN update(q, st, cbs, eof) ELSE Res(q, st, "none", 0, <<>>)
    ELSE Res(q, new_state, "none", 0, <<>>)

(* The methods of a Lord that cannot be called without an argument. *)
NeedArgs == {"attach", "detatch", "send", "start"}

(* getattr(self, attr) called with the message's args and kwargs, for the  *)
(* attrs this Serf puts in a message: 'state', 'error', and the names of   *)
(* the events it emits.  'tick' is no attribute of a Lord; 'update' and    *)
(* 'stop' are the methods Lord.update and Lord.stop, and stop() is carried *)
(* out by the action the update belongs to; 'start' is Lord.start, called  *)
(* without its serf_class.                                                 *)
Dispatch(attr, args, kwargs, q, st, cbs, eof) ==
    CASE attr = "state" ->
           state(IF Len(args) >= 1 THEN args[1] ELSE None, FALSE, q, st, cbs, eof)
      [] attr = "error" -> error(Res(q, st, "none", 0, <<>>))
      [] attr = "update" -> update(q, st, cbs, eof)
      [] attr = "stop" -> [Res(q, st, "none", 0, <<>>) EXCEPT !.call = "stop"]
      [] attr \in NeedArgs /\ args = NoArgs /\ kwargs = NoKwargs ->
           Res(q, st, "TypeError", 0, <<>>)
      [] attr \notin LordMethods -> Res(q, st, "AttributeError", 0, <<>>)

(* Lord.update(timeout) on an existing pipe, lord.py 98-113.  eof: the     *)
(* child's end is closed, so that poll() reports the end of the stream and *)
(* recv() raises EOFError once nothing is left to receive.                 *)
update(q, st, cbs, eof) ==
    IF q = <<>>
    THEN Res(q, st, IF eof THEN "EOFError" ELSE "none", 0, <<>>)
    ELSE LET m == parse_message(Head(q))
             d == Dispatch(m.attr, m.args, m.kwargs, Tail(q), st, cbs, eof)
         IN IF d.exc # "none"
            THEN [d EXCEPT !.nread = @ + 1]
            ELSE [d EXCEPT !.nread = @ + 1,
                           !.invoked = @ \o Invoke(cbs, m.attr, m.args, m.kwargs)]

(* self.update() as the Lord's methods call it: self.pipe may not exist. *)
Upd(eof) ==
    IF ~HasPipe THEN Res(toLord, _state, "AttributeError", 0, <<>>)
    ELSE update(toLord, _state, callbacks, eof)

(* Whether poll() may report the end of the stream: only once the child    *)
(* has exited, and then depending on whether the parent still holds a copy *)
(* of the child's end (Process keeps its args in some Python versions).    *)
EofChoices == IF PeerGone THEN BOOLEAN ELSE {FALSE}

---------------------------------------------------------------------------
(* Lord.send                                                               *)

IsInstanceAny(attr) == TRUE
(* lord.py 65: isinstance(attr, str) *)
IsInstanceStr(attr) == attr \notin NonStr

(* The exception Lord.send(attr, ...) raises, "none" when it returns.      *)
(* broken: the child's end is closed and the write fails with EPIPE.       *)
SendExc(attr, broken) ==
    IF ~IsInstanceStr(attr) THEN "AssertionError"
    ELSE IF ~HasPipe THEN "AttributeError"
    ELSE IF broken THEN "BrokenPipeError"
    ELSE "none"

SendQueueTwice(q, attr, args, kwargs, exc) ==
    IF exc = "none" THEN q \o <<Msg(attr, args, kwargs), Msg(attr, args, kwargs)>> ELSE q
(* lord.py 66: self.pipe.send((attr, args, kwargs)) *)
SendQueue(q, attr, args, kwargs, exc) ==
    IF exc = "none" THEN Append(q, Msg(attr, args, kwargs)) ELSE q

(* Messages in the channel, both directions. *)
InFlight == Len(toSerf) + Len(toLord)

(* The amount an 'increment' message adds: its by keyword, 1 by default. *)
By(kwargs) ==
    IF \E kv \in kwargs : kv[1] = "by"
    THEN (CHOOSE kv \in kwargs : kv[1] = "by")[2]
    ELSE 1

RECURSIVE PendingBy(_)
(* The sum of the increments waiting in a queue of messages to the Serf. *)
PendingBy(q) ==
    IF q = <<>> THEN 0
    ELSE (IF Head(q)[1] = "increment" THEN By(Head(q)[3]) ELSE 0) + PendingBy(Tail(q))

(* Whether a write on Lord.pipe may fail: only once the child has exited. *)
BrokenChoices == IF PeerGone THEN BOOLEAN ELSE {FALSE}

(* Lord.send(attr, *args, **kwargs), called by the application. *)
Send(attr, args, kwargs) ==
    /\ lordPc = "idle"
    /\ \E broken \in BrokenChoices :
         LET exc == SendExc(attr, broken)
         IN /\ exc = "none" => InFlight < MaxQueue
            /\ (exc = "none" /\ attr = "increment")
                  => serf.total + PendingBy(toSerf) + By(kwargs) <= MaxTotal
            /\ toSerf' = SendQueue(toSerf, attr, args, kwargs, exc)
            /\ ret' = Ret("send", exc, None, 0, Len(toSerf') - Len(toSerf), <<>>)
    /\ UNCHANGED <<_state, process, _cbindex, callbacks, pipe, toLord, lordPc, serf,
                   spawned, issued, detached>>

---------------------------------------------------------------------------
(* Lord.start and Lord.stop                                                *)

StartIsNoopNever == FALSE
(* lord.py 69: self.process is not None and self.process.is_alive() *)
StartIsNoop == process # None /\ IsAlive

(* lord.py 78: the loop of start(wait=True) ends when the state is set. *)
StartWaitDone(st) == st # None

(* Lord.start(serf_class, wait=w), lord.py 69-76, up to the wait loop. *)
Start(w) ==
    /\ lordPc = "idle"
    /\ IF StartIsNoop
       THEN /\ ret' = Ret(IF w THEN "start_wait" ELSE "start", "none", 0, 0, 0, <<>>)
            /\ UNCHANGED <<process, pipe, toSerf, toLord, lordPc, serf, spawned>>
       ELSE /\ spawned < MaxStarts
            /\ spawned' = spawned + 1
            /\ pipe' = spawned + 1
            /\ toSerf' = <<>>
            /\ toLord' = <<>>
            /\ serf' = [pid |-> spawned + 1, pc |-> "init", total |-> 0,
                        pipe |-> spawned + 1, reported |-> FALSE, waited |-> w,
                        errs |-> FALSE, empties |-> FALSE]
            /\ process' = spawned + 1
            /\ lordPc' = IF w THEN "start_check" ELSE "idle"
            /\ ret' = Ret(IF w THEN "start_wait" ELSE "start",
                          IF w THEN "pending" ELSE "none", 1, 0, 0, <<>>)
    /\ UNCHANGED <<_state, _cbindex, callbacks, issued, detached>>

(* Whether poll() may report the end of the stream inside start: never,   *)
(* the local serf_pipe of start keeps the child's end open in the parent.  *)
StartEofChoices == {FALSE}

(* lord.py 78: while self.state(update=True) is None *)
StartCheck ==
    /\ lordPc = "start_check"
    /\ \E eof \in StartEofChoices :
         LET r == state(None, TRUE, toLord, _state, callbacks, eof)
         IN /\ toLord' = r.q
            /\ _state' = r.st
            /\ lordPc' = IF r.exc # "none" \/ StartWaitDone(r.st)
                         THEN "idle" ELSE "start_body"
            /\ ret' = IF r.exc # "none" \/ StartWaitDone(r.st)
                      THEN [ret EXCEPT !.exc = r.exc] ELSE ret
    /\ UNCHANGED <<process, _cbindex, callbacks, pipe, toSerf, serf, spawned,
                   issued, detached>>

(* lord.py 79: self.update(), the body of the loop *)
StartBody ==
    /\ lordPc = "start_body"
    /\ \E eof \in StartEofChoices :
         LET r == Upd(eof)
         IN /\ toLord' = r.q
            /\ _state' = r.st
            /\ lordPc' = IF r.exc # "none" THEN "idle" ELSE "start_check"
            /\ ret' = IF r.exc # "none" THEN [ret EXCEPT !.exc = r.exc] ELSE ret
    /\ UNCHANGED <<process, _cbindex, callbacks, pipe, toSerf, serf, spawned,
                   issued, detached>>

ClearedKeep(p) == p
(* lord.py 85, 93: self.process = None *)
Cleared(p) == None

(* The stop() a message invoked from inside update(), lord.py 82-89: what  *)
(* it writes on the channel, the handle it leaves, and whether the Lord is *)
(* now inside its wait loop.                                               *)
CalledStopQueue(call) ==
    IF call = "stop" /\ IsAlive
    THEN SendQueue(toSerf, "exit", NoArgs, NoKwargs, SendExc("exit", FALSE))
    ELSE toSerf

CalledStopProcess(call) ==
    IF call = "stop" /\ process # None /\ ~IsAlive THEN Cleared(process) ELSE process

CalledStopWaits(call) == call = "stop" /\ IsAlive

(* Lord.update(), called by the application. *)
Update ==
    /\ lordPc = "idle"
    /\ \E eof \in EofChoices :
         LET r == Upd(eof)
         IN /\ toLord' = r.q
            /\ _state' = r.st
            /\ toSerf' = CalledStopQueue(r.call)
            /\ process' = CalledStopProcess(r.call)
            /\ lordPc' = IF CalledStopWaits(r.call) THEN "stop_loop" ELSE "idle"
            /\ ret' = Ret("update", IF CalledStopWaits(r.call) THEN "pending" ELSE r.exc,
                          None, r.nread, Len(toSerf') - Len(toSerf), r.invoked)
    /\ UNCHANGED <<_cbindex, callbacks, pipe, serf, spawned, issued, detached>>

(* Lord.state(update=u), called by the application as a getter. *)
State(u) ==
    /\ lordPc = "idle"
    /\ \E eof \in EofChoices :
         LET r == IF u THEN Upd(eof) ELSE Res(toLord, _state, "none", 0, <<>>)
         IN /\ toLord' = r.q
            /\ _state' = r.st
            /\ ret' = Ret("state", r.exc, IF r.exc = "none" THEN r.st ELSE None,
                          r.nread, 0, r.invoked)
    /\ UNCHANGED <<process, _cbindex, callbacks, pipe, toSerf, lordPc, serf, spawned,
                   issued, detached>>

(* Lord.stop(wait=w), lord.py 82-89, up to the wait loop. *)
Stop(w) ==
    /\ lordPc = "idle"
    /\ IF process = None
       THEN /\ ret' = Ret(IF w THEN "stop_wait" ELSE "stop", "none", 0, 0, 0, <<>>)
            /\ UNCHANGED <<process, toSerf, lordPc>>
       ELSE IF ~IsAlive
       THEN /\ process' = Cleared(process)
            /\ ret' = Ret(IF w THEN "stop_wait" ELSE "stop", "none", 1, 0, 0, <<>>)
            /\ UNCHANGED <<toSerf, lordPc>>
       ELSE /\ InFlight < MaxQueue
            /\ toSerf' = SendQueue(toSerf, "exit", NoArgs, NoKwargs, SendExc("exit", FALSE))
            /\ lordPc' = IF w THEN "stop_loop" ELSE "idle"
            /\ ret' = Ret(IF w THEN "stop_wait" ELSE "stop",
                          IF w THEN "pending" ELSE "none", 2, 0, 1, <<>>)
            /\ UNCHANGED process
    /\ UNCHANGED <<_state, _cbindex, callbacks, pipe, toLord, serf, spawned,
                   issued, detached>>

(* lord.py 90-93: while self.process.is_alive(): self.update(); then join. *)
StopLoop ==
    /\ lordPc = "stop_loop"
    /\ IF IsAlive
       THEN /\ \E eof \in EofChoices :
                 LET r == Upd(eof)
                 IN /\ toLord' = r.q
                    /\ _state' = r.st
                    /\ toSerf' = CalledStopQueue(r.call)
                    /\ lordPc' = IF r.exc # "none" THEN "idle" ELSE "stop_loop"
                    /\ ret' = IF r.exc # "none" THEN [ret EXCEPT !.exc = r.exc]
                              ELSE [ret EXCEPT !.wrote = @ + Len(toSerf') - Len(toSerf)]
            /\ UNCHANGED process
       ELSE /\ process' = Cleared(process)
            /\ lordPc' = "idle"
            /\ ret' = [ret EXCEPT !.exc = "none"]
            /\ UNCHANGED <<toLord, _state, toSerf>>
    /\ UNCHANGED <<_cbindex, callbacks, pipe, serf, spawned, issued, detached>>

---------------------------------------------------------------------------
(* The Serf: the child process's receive loop.                             *)

(* The operations the Serf exposes: a counter that reports its running     *)
(* total, an operation with no report, one that reports the empty value as *)
(* its state, four that emit an event, and exit.                           *)
SerfOps == {"increment", "sleep", "report_empty", "emit_tick", "emit_update",
            "emit_stop", "emit_start", "exit"}

(* The running total after the Serf has executed a message. *)
SerfTotal(m, total) ==
    IF m[1] = "increment" THEN total + By(m[3]) ELSE total

(* What the Serf writes back when it has executed a message: a state       *)
(* report, an event, an error signal for an operation it does not expose,  *)
(* or nothing.                                                             *)
SerfReply(m, total) ==
    CASE m[1] = "increment" -> <<Msg("state", <<SerfTotal(m, total)>>, NoKwargs)>>
      [] m[1] = "sleep" -> <<>>
      [] m[1] = "report_empty" -> <<Msg("state", <<None>>, NoKwargs)>>
      [] m[1] = "emit_tick" -> <<Msg("tick", NoArgs, NoKwargs)>>
      [] m[1] = "emit_update" -> <<Msg("update", NoArgs, NoKwargs)>>
      [] m[1] = "emit_stop" -> <<Msg("stop", NoArgs, NoKwargs)>>
      [] m[1] = "emit_start" -> <<Msg("start", NoArgs, NoKwargs)>>
      [] m[1] = "exit" -> <<Msg("state", <<ExitState>>, NoKwargs)>>
      [] m[1] \notin SerfOps -> <<Msg("error", NoArgs, NoKwargs)>>

(* initializing -> ready: the Serf is constructed and reports its first state. *)
SerfInit ==
    /\ serf.pc = "init"
    /\ toLord' = Append(toLord, Msg("state", <<ReadyState>>, NoKwargs))
    /\ serf' = [serf EXCEPT !.pc = "ready", !.reported = TRUE]
    /\ UNCHANGED <<_state, process, _cbindex, callbacks, pipe, toSerf, lordPc,
                   spawned, ret, issued, detached>>

(* initializing -> terminated: constructing the Serf raised; the process   *)
(* reports an error signal if it can (signalled), then exits non-zero.     *)
SerfInitFail(signalled) ==
    /\ serf.pc = "init"
    /\ toLord' = IF signalled THEN Append(toLord, Msg("error", NoArgs, NoKwargs))
                  ELSE toLord
    /\ serf' = [serf EXCEPT !.pc = "exited", !.errs = signalled]
    /\ UNCHANGED <<_state, process, _cbindex, callbacks, pipe, toSerf, lordPc,
                   spawned, ret, issued, detached>>

(* ready -> executing -> ready, or -> terminating on 'exit'. *)
SerfRecv ==
    /\ serf.pc = "ready"
    /\ toSerf # <<>>
    /\ toSerf' = Tail(toSerf)
    /\ toLord' = toLord \o SerfReply(Head(toSerf), serf.total)
    /\ serf' = [serf EXCEPT !.total = SerfTotal(Head(toSerf), serf.total),
                            !.pc = IF Head(toSerf)[1] = "exit" THEN "exiting" ELSE "ready",
                            !.errs = @ \/ Head(toSerf)[1] \notin SerfOps,
                            !.empties = @ \/ Head(toSerf)[1] = "report_empty"]
    /\ UNCHANGED <<_state, process, _cbindex, callbacks, pipe, lordPc,
                   spawned, ret, issued, detached>>

(* terminating -> terminated: the process exits with code 0. *)
SerfExit ==
    /\ serf.pc = "exiting"
    /\ serf' = [serf EXCEPT !.pc = "exited"]
    /\ UNCHANGED <<_state, process, _cbindex, callbacks, pipe, toSerf, toLord, lordPc,
                   spawned, ret, issued, detached>>

---------------------------------------------------------------------------
(* What the application sends. *)
SendAttrs == {"increment", "emit_update", "bogus", "exit"} \cup NonStr

SendKwargs(attr) ==
    IF attr = "increment" THEN {NoKwargs} \cup {{<<"by", k>>} : k \in 1..MaxBy}
    ELSE {NoKwargs}

Next ==
    \/ \E w \in BOOLEAN : Start(w)
    \/ StartCheck
    \/ StartBody
    \/ \E w \in BOOLEAN : Stop(w)
    \/ StopLoop
    \/ \E a \in SendAttrs : \E kw \in SendKwargs(a) : Send(a, NoArgs, kw)
    \/ Update
    \/ \E u \in BOOLEAN : State(u)
    \/ SerfInit
    \/ SerfRecv
    \/ SerfExit

Spec == Init /\ [][Next]_vars

(* The lifecycle: start, stop, update, state and the child's steps, a      *)
(* failure of its construction included, with the one operation that makes *)
(* the Serf write an error signal.                                         *)
LifeSendAttrs == {"bogus"}

NextLife ==
    \/ \E w \in BOOLEAN : Start(w)
    \/ StartCheck
    \/ StartBody
    \/ \E w \in BOOLEAN : Stop(w)
    \/ StopLoop
    \/ \E a \in LifeSendAttrs : Send(a, NoArgs, NoKwargs)
    \/ Update
    \/ \E u \in BOOLEAN : State(u)
    \/ SerfInit
    \/ \E signalled \in BOOLEAN : SerfInitFail(signalled)
    \/ SerfRecv
    \/ SerfExit

(* The lifecycle with the scheduling the liveness of the wait loops rests  *)
(* on: the operating system keeps running the child process, and the      *)
(* Lord's thread keeps running the loop it is in.                          *)
FairSpec ==
    /\ Init /\ [][NextLife]_vars
    /\ WF_vars(SerfInit \/ \E signalled \in BOOLEAN : SerfInitFail(signalled))
    /\ WF_vars(SerfRecv) /\ WF_vars(SerfExit)
    /\ WF_vars(StartCheck) /\ WF_vars(StartBody) /\ WF_vars(StopLoop)

(* The state reports: every call of the Lord, with the operations whose    *)
(* report carries a total or the empty value, and the event that makes one *)
(* update() receive more than one message.                                 *)
RepSendAttrs == {"increment", "report_empty", "emit_update"}

NextRep ==
    \/ \E w \in BOOLEAN : Start(w)
    \/ StartCheck
    \/ StartBody
    \/ \E w \in BOOLEAN : Stop(w)
    \/ StopLoop
    \/ \E a \in RepSendAttrs : \E kw \in SendKwargs(a) : Send(a, NoArgs, kw)
    \/ Update
    \/ \E u \in BOOLEAN : State(u)
    \/ SerfInit
    \/ SerfRecv
    \/ SerfExit

SpecRep == Init /\ [][NextRep]_vars

(* The events named like a method of the Lord, read by update(). *)
CtlSendAttrs == {"emit_stop", "emit_start", "emit_update"}

NextCtl ==
    \/ Start(FALSE)
    \/ \E a \in CtlSendAttrs : Send(a, NoArgs, NoKwargs)
    \/ Update
    \/ StopLoop
    \/ SerfInit
    \/ SerfRecv
    \/ SerfExit

SpecCtl == Init /\ [][NextCtl]_vars

(* The callback registry with the events that reach it. *)
CbSendAttrs == {"emit_tick", "emit_update"}

NextCb ==
    \/ \E a \in EventNames : \E f \in Funcs : Attach(a, f)
    \/ \E c \in 0..MaxCb : Detatch(c)
    \/ Start(FALSE)
    \/ \E a \in CbSendAttrs : Send(a, NoArgs, NoKwargs)
    \/ Update
    \/ SerfInit
    \/ SerfRecv

SpecCb == Init /\ [][NextCb]_vars

---------------------------------------------------------------------------
(* Properties.                                                             *)

(* The operation names the protocol reserves. *)
Reserved == {"state", "error", "exit"}

(* The cbids the caller holds. *)
HeldIds == {h[1] : h \in Held}

(* What the registry contract promises for an event: the held callbacks of *)
(* attr in attach order, each called with the message's args and kwargs.   *)
ExpectedCalls(attr, args, kwargs) ==
    LET on == SelectSeq(issued, LAMBDA e : e[2] = attr /\ e[1] \notin detached)
    IN [i \in 1..Len(on) |-> <<on[i][3], args, kwargs>>]

(* C1: the subscription ids attach returns are pairwise distinct and       *)
(* strictly increasing in call order, whatever detatch calls come between; *)
(* no id is returned twice.                                                *)
C1_IdsDistinctIncreasing ==
    \A i, j \in 1..Len(issued) : i < j => issued[i][1] < issued[j][1]

C1_Witness ==
    /\ Len(issued) = MaxCb
    /\ ret.op = "detatch"
    /\ ret.val = issued[1][1]

(* C2: an update() that reads a non-reserved message whose operation is an *)
(* event with held subscriptions invokes exactly those callbacks, once     *)
(* each, in attach order, with the message's args and kwargs.              *)
C2_CallbacksInvoked ==
    [][(Update /\ HasPipe /\ toLord # <<>> /\ Head(toLord)[1] \notin Reserved)
         => ret'.invoked = ExpectedCalls(Head(toLord)[1], Head(toLord)[2], Head(toLord)[3])]_vars

(* C3: detatch(id) of a held id returns without raising and removes that   *)
(* subscription only: every other held subscription is still stored in the *)
(* registry with its id, event and callback.                               *)
C3_DetachRemovesOnlyThat ==
    [][\A c \in 0..MaxCb :
          (Detatch(c) /\ c \in HeldIds)
             => /\ ret'.exc = "none"
                /\ {h \in Held : h[1] # c} \subseteq Registered(callbacks')
                /\ c \notin {r[1] : r \in Registered(callbacks')}]_vars

(* C4: detatch(id) raises exactly when id is not held (never returned by   *)
(* attach, or already detached) and then leaves the registry unchanged.    *)
C4_DetachFailsIffUnknown ==
    [][\A c \in 0..MaxCb :
          Detatch(c)
             => /\ (ret'.exc # "none") <=> (c \notin HeldIds)
                /\ (ret'.exc # "none") => callbacks' = callbacks]_vars

(* C5: when start(wait=True) has returned after spawning a child, state()  *)
(* is not None and that child has reported a state.                        *)
C5_StartWaitReported ==
    (lordPc = "idle" /\ ret.op = "start_wait" /\ ret.exc = "none" /\ ret.val = 1)
       => (_state # None /\ serf.pid = process /\ serf.reported)

(* C6: stop() on a Supervisor whose child has exited clears the process    *)
(* handle, and start() on a Supervisor with no process handle spawns a new *)
(* live child connected to a fresh, empty channel.                         *)
C6_Restartable ==
    [][/\ \A w \in BOOLEAN :
            (Stop(w) /\ lordPc = "idle" /\ process # None /\ ~IsAlive)
               => (process' = None /\ lordPc' = "idle" /\ toSerf' = toSerf)
       /\ \A w \in BOOLEAN :
            (Start(w) /\ lordPc = "idle" /\ process = None)
               => /\ process' # None
                  /\ IsAlive'
                  /\ pipe' # pipe
                  /\ serf'.pipe = pipe'
                  /\ serf'.pid # serf.pid
                  /\ toSerf' = <<>>
                  /\ toLord' = <<>>]_vars

C6_Witness ==
    /\ spawned = 2
    /\ ret.op \in {"start", "start_wait"}
    /\ ret.pre = None
    /\ ret.exc = "none"
    /\ IsAlive
    /\ pipe = 2

(* The running total once the Serf has executed everything sent to it. *)
SentTotal == serf.total + PendingBy(toSerf)

(* The last call was an update() that found nothing pending, on a live     *)
(* child started with wait=True that has not been told to exit.            *)
DrainedAfterWait ==
    /\ lordPc = "idle"
    /\ ret.op = "update"
    /\ ret.exc = "none"
    /\ ret.nread = 0
    /\ IsAlive
    /\ serf.waited
    /\ serf.pc \in {"init", "ready"}
    /\ \A i \in 1..Len(toSerf) : toSerf[i][1] # "exit"

(* C7 as claimed: after start(wait=True) and send('increment', by=k), once *)
(* update() finds nothing pending, state() is the running total including  *)
(* every increment sent.                                                   *)
C7_DrainedStateIsSentTotal ==
    (DrainedAfterWait /\ SentTotal > 0) => _state = SentTotal

(* C7 as amended: the same once the Serf has executed the increments sent  *)
(* and no report of it is left in the channel.                             *)
C7_DrainedStateIsTotal ==
    (DrainedAfterWait /\ serf.pc = "ready" /\ toSerf = <<>> /\ toLord = <<>>
        /\ serf.total > 0)
       => _state = serf.total

C7_Witness ==
    /\ DrainedAfterWait
    /\ serf.pc = "ready" /\ toSerf = <<>> /\ toLord = <<>>
    /\ serf.total = MaxBy + 1
    /\ _state = MaxBy + 1

(* C8: an operation the Serf does not expose makes it write exactly one    *)
(* error signal and stay ready with its total unchanged; an update() that  *)
(* reads the error signal raises SerfError; and a Serf that has sent an    *)
(* error signal still executes the increments it receives.                 *)
C8_UnknownOperation ==
    [][/\ (SerfRecv /\ Head(toSerf)[1] \notin SerfOps)
            => /\ toLord' = Append(toLord, Msg("error", NoArgs, NoKwargs))
               /\ serf'.pc = "ready"
               /\ serf'.total = serf.total
       /\ (Update /\ HasPipe /\ toLord # <<>> /\ Head(toLord)[1] = "error")
            => /\ ret'.exc = "SerfError"
               /\ ret'.nread = 1
               /\ toLord' = Tail(toLord)
       /\ (SerfRecv /\ serf.errs /\ Head(toSerf)[1] = "increment")
            => /\ serf'.total = serf.total + By(Head(toSerf)[3])
               /\ toLord' = Append(toLord, Msg("state", <<serf'.total>>, NoKwargs))
               /\ serf'.pc = "ready"]_vars

C8_Witness ==
    /\ serf.errs
    /\ serf.total > 0
    /\ serf.pc = "ready"
    /\ ret.op = "update"
    /\ ret.exc = "SerfError"
    /\ _state = serf.total

(* What every step of send that changes anything shows: its outcome is    *)
(* recorded, and it is a new outcome or a longer queue.                    *)
SendReturned ==
    lordPc = "idle" /\ ret'.op = "send" /\ (ret' # ret \/ Len(toSerf') > Len(toSerf))

(* C9 as claimed: send with a non-string operation raises and writes       *)
(* nothing; with a string operation it writes exactly that one message and *)
(* returns at once.                                                        *)
C9_SendWritesOne ==
    [][\A a \in SendAttrs : \A kw \in SendKwargs(a) :
          (SendReturned /\ Send(a, NoArgs, kw))
             => IF a \in NonStr
                THEN ret'.exc = "AssertionError" /\ toSerf' = toSerf
                ELSE /\ ret'.exc = "none"
                     /\ toSerf' = Append(toSerf, Msg(a, NoArgs, kw))
                     /\ toLord' = toLord
                     /\ lordPc' = "idle"]_vars

(* C9 as amended: the same for a string operation when the Supervisor has  *)
(* a channel whose child has not exited.                                   *)
C9_SendWritesOneOnOpenChannel ==
    [][\A a \in SendAttrs : \A kw \in SendKwargs(a) :
          (SendReturned /\ Send(a, NoArgs, kw))
             => IF a \in NonStr
                THEN ret'.exc = "AssertionError" /\ toSerf' = toSerf
                ELSE (HasPipe /\ ~PeerGone)
                        => /\ ret'.exc = "none"
                           /\ toSerf' = Append(toSerf, Msg(a, NoArgs, kw))
                           /\ toLord' = toLord
                           /\ serf' = serf
                           /\ lordPc' = "idle"]_vars

C9_Witness ==
    /\ ret.op = "send"
    /\ ret.exc = "none"
    /\ ret.wrote = 1
    /\ IsAlive
    /\ serf.pc = "ready"
    /\ toSerf = <<Msg("increment", NoArgs, {<<"by", MaxBy>>})>>

(* C10: one update() call removes at most one message from the channel and *)
(* leaves the others queued in their order.                                *)
C10_UpdateReadsAtMostOne ==
    [][Update => (toLord' = toLord \/ (toLord # <<>> /\ toLord' = Tail(toLord)))]_vars

(* The next message the Lord receives is the reserved error signal. *)
ErrorPending == HasPipe /\ toLord # <<>> /\ Head(toLord)[1] = "error"

(* C11: an update() that reads the reserved error signal raises SerfError  *)
(* to its caller, having received that one message and invoked no callback,*)
(* and leaves the cached state and the callback registry as they were; the *)
(* same through state(update=True), and the wait loops of start and stop   *)
(* end with that exception.                                                *)
C11_ErrorSurfaced ==
    [][/\ ((Update \/ State(TRUE)) /\ ErrorPending)
            => /\ ret'.exc = "SerfError"
               /\ ret'.nread = 1
               /\ ret'.invoked = <<>>
               /\ toLord' = Tail(toLord)
               /\ _state' = _state
               /\ callbacks' = callbacks
               /\ _cbindex' = _cbindex
       /\ ((StartCheck \/ StartBody \/ (StopLoop /\ IsAlive)) /\ ErrorPending)
            => /\ ret'.exc = "SerfError"
               /\ lordPc' = "idle"
               /\ toLord' = Tail(toLord)
               /\ _state' = _state
               /\ callbacks' = callbacks]_vars

C11_Witness ==
    /\ ret.op = "update"
    /\ ret.exc = "SerfError"
    /\ ret.nread = 1
    /\ _state = ReadyState
    /\ toLord # <<>>
    /\ Head(toLord)[1] = "state"

(* C12: an update() that reads an application event nobody is subscribed   *)
(* to returns without raising, has received that one message, and leaves   *)
(* the cached state and the callback registry as they were.                *)
C12_UnsubscribedEventIgnored ==
    [][(/\ Update
        /\ HasPipe
        /\ toLord # <<>>
        /\ Head(toLord)[1] \notin Reserved
        /\ Head(toLord)[1] \notin DOMAIN callbacks
        /\ ExpectedCalls(Head(toLord)[1], Head(toLord)[2], Head(toLord)[3]) = <<>>)
          => /\ ret'.exc = "none"
             /\ ret'.nread = 1
             /\ toLord' = Tail(toLord)
             /\ _state' = _state
             /\ callbacks' = callbacks]_vars

(* stop(wait=True) has ended without raising, having sent 'exit'. *)
StopWaitReturned ==
    lordPc = "idle" /\ ret.op = "stop_wait" /\ ret.val = 2 /\ ret.exc = "none"

(* What C13 says of the steps of stop: with no handle it changes nothing;  *)
(* with the handle of an exited process it clears the handle and writes    *)
(* nothing; on a live child it writes 'exit' once, and the wait loop       *)
(* writes nothing more.                                                    *)
StopSteps ==
    /\ \A w \in BOOLEAN :
         Stop(w) =>
            IF process = None
            THEN UNCHANGED <<_state, process, pipe, toSerf, toLord, serf, lordPc>>
            ELSE IF ~IsAlive
            THEN process' = None /\ UNCHANGED <<toSerf, toLord, serf, lordPc>>
            ELSE /\ toSerf' = Append(toSerf, Msg("exit", NoArgs, NoKwargs))
                 /\ process' = process
    /\ StopLoop => toSerf' = toSerf

(* C13 as claimed: stop(wait=True) on a live child sends 'exit' once and,  *)
(* the child being scheduled, eventually returns (its wait loop does not   *)
(* end by raising); when it has returned the child is not alive and the    *)
(* handle is cleared; stop with no handle is a no-op and stop on an exited *)
(* process clears the handle without sending.                              *)
C13_StopReturns ==
    /\ [][StopSteps]_vars
    /\ [](StopWaitReturned
            => process = None /\ serf.pid = ret.pre /\ serf.pc = "exited")
    /\ [][StopLoop => ret'.exc \in {"pending", "none"}]_vars
    /\ (lordPc = "stop_loop" ~> StopWaitReturned)

(* C13 as amended: the same, except that the wait loop of stop ends either *)
(* by returning or with the exception an update() in it raised.            *)
C13_StopEnds ==
    /\ [][StopSteps]_vars
    /\ [](StopWaitReturned
            => process = None /\ serf.pid = ret.pre /\ serf.pc = "exited")
    /\ (lordPc = "stop_loop"
          ~> (lordPc = "idle" /\ ret.op = "stop_wait" /\ ret.val = 2
                /\ (ret.exc = "none" => process = None)))

C13_Witness ==
    /\ StopWaitReturned
    /\ process = None
    /\ serf.pid = ret.pre
    /\ serf.pc = "exited"
    /\ toSerf = <<>>

(* C14: when stop(wait=True) has returned after shutting down a running    *)
(* child, the cached state is the terminal sentinel: the child's final     *)
(* state report has been read before stop returned.                        *)
C14_StopObservesExit ==
    StopWaitReturned => _state = ExitState

(* The child process is running. *)
SerfLive == serf.pc \in {"init", "ready", "exiting"}

(* C15: start() while the child is alive creates no channel and no process *)
(* and leaves the handle as it is; a child is only spawned when the one    *)
(* before it is not alive, so at most one is alive; and a live child is    *)
(* always the one Lord.process refers to, whatever start and stop did.     *)
C15_OneLiveWorker ==
    /\ [][\A w \in BOOLEAN :
            (Start(w) /\ process # None /\ serf.pid = process /\ SerfLive)
               => UNCHANGED <<process, pipe, toSerf, toLord, serf, spawned, lordPc>>]_vars
    /\ [][spawned' # spawned
            => /\ ~SerfLive
               /\ spawned' = spawned + 1
               /\ serf'.pid = spawned'
               /\ process' = spawned']_vars
    /\ [](SerfLive => process = serf.pid)

C15_Witness ==
    /\ ret.op \in {"start", "start_wait"}
    /\ ret.val = 0
    /\ spawned = MaxStarts
    /\ SerfLive
    /\ process = serf.pid
    /\ lordPc = "idle"

(* The child of the handle exited while initializing, before any report. *)
StartupFailed == serf.pid = process /\ serf.pc = "exited" /\ ~serf.reported

(* C16: when the child has failed during initialization before any state   *)
(* report, start(wait=True) ends, and ends with a failure: it does not go  *)
(* on waiting for a process that has exited.                               *)
C16_StartFailsOnStartupFailure ==
    (lordPc \in {"start_check", "start_body"} /\ StartupFailed)
       ~> (lordPc = "idle" /\ ret.op = "start_wait" /\ ret.exc \notin {"none", "pending"})

(* A step in which the Lord receives messages: the channel is the same and *)
(* its queue towards the Lord is a proper suffix of what it was.           *)
LordReads ==
    /\ pipe' = pipe
    /\ Len(toLord') < Len(toLord)
    /\ toLord' = SubSeq(toLord, Len(toLord) - Len(toLord') + 1, Len(toLord))

RECURSIVE LastReport(_, _, _)
(* The value of the last state report among the first n messages of q,     *)
(* prev when there is none.                                                *)
LastReport(q, n, prev) ==
    IF n = 0 THEN prev
    ELSE IF q[n][1] = "state" THEN q[n][2][1]
    ELSE LastReport(q, n - 1, prev)

RECURSIVE LastNonEmptyReport(_, _, _)
(* The same, among the state reports whose value is not the empty value. *)
LastNonEmptyReport(q, n, prev) ==
    IF n = 0 THEN prev
    ELSE IF q[n][1] = "state" /\ q[n][2][1] # None THEN q[n][2][1]
    ELSE LastNonEmptyReport(q, n - 1, prev)

(* C17 as claimed: state reports are applied in the order the Serf sent    *)
(* them: after a call that received messages the cached state is the value *)
(* of the most recent state report received, and it changes in no other    *)
(* step, so it is never a value the Serf did not report.                   *)
C17_StateIsLastReport ==
    [][/\ LordReads
            => _state' = LastReport(toLord, Len(toLord) - Len(toLord'), _state)
       /\ ~LordReads => _state' = _state]_vars

(* C17 as amended: the same with the most recent state report whose value  *)
(* is not the empty value; a report of the empty value changes nothing.    *)
C17_StateIsLastNonEmptyReport ==
    [][/\ LordReads
            => _state' = LastNonEmptyReport(toLord, Len(toLord) - Len(toLord'), _state)
       /\ ~LordReads => _state' = _state]_vars

C17_Witness ==
    /\ ret.op = "update"
    /\ ret.nread = 2
    /\ ret.exc = "none"
    /\ _state = MaxBy + 1
    /\ serf.total = MaxBy + 1
    /\ serf.empties
    /\ toLord = <<>>
    /\ toSerf = <<>>

(* C18: an update() with no message pending, and a state(update=True) in   *)
(* the same situation, returns without raising and changes nothing: not    *)
(* the cached state, the registry, the handle or the channel, and it       *)
(* invokes no callback; in every lifecycle state, a Lord never started     *)
(* included.                                                               *)
C18_UpdateNoopWhenNothingPending ==
    [][((Update \/ State(TRUE)) /\ toLord = <<>>)
          => /\ ret'.exc = "none"
             /\ ret'.nread = 0
             /\ ret'.invoked = <<>>
             /\ UNCHANGED <<_state, _cbindex, callbacks, process, pipe, toSerf, toLord>>]_vars

(* C19: whatever message the Serf has written, the update() that receives *)
(* it does no control operation: it spawns no process and stops none,      *)
(* writes nothing on the channel, leaves the handle and the registry as    *)
(* they are, and is not left waiting for the child.                        *)
C19_NoControlFromMessages ==
    [][Update
         => /\ toSerf' = toSerf
            /\ process' = process
            /\ pipe' = pipe
            /\ spawned' = spawned
            /\ callbacks' = callbacks
            /\ _cbindex' = _cbindex
            /\ lordPc' = "idle"]_vars

(* C20: once the cached state is not empty it never becomes empty again:   *)
(* no step of start, stop, send, update or state resets it, start and stop *)
(* leave it as it is even across a restart, and an update() that receives  *)
(* a state report of the empty value keeps the state it had.               *)
C20_StateNeverEmptied ==
    [][/\ _state # None => _state' # None
       /\ (\E w \in BOOLEAN : Start(w) \/ Stop(w)) => _state' = _state
       /\ (Update /\ HasPipe /\ toLord # <<>>
             /\ Head(toLord) = Msg("state", <<None>>, NoKwargs))
            => _state' = _state /\ ret'.exc = "none"]_vars

C20_Witness ==
    /\ spawned = MaxStarts
    /\ serf.pid = process
    /\ serf.empties
    /\ toLord = <<>>
    /\ toSerf = <<>>
    /\ ret.op = "update"
    /\ ret.nread = 1
    /\ _state = ReadyState

====
